---- MODULE Spec2Model ----
(***************************************************************************)
(* The client-side session store of TalentHunt (AuthProvider) and the      *)
(* part of the API client (apiFetch, authApi) it calls.                    *)
(*                                                                         *)
(* JavaScript runs one task at a time: a handler runs to its first await,  *)
(* and the continuation of an await runs when the response arrives.  Each  *)
(* action below is one such run.  The promise chain of the hydrate effect  *)
(* (.then / .catch / .finally) is kept as separate steps so that the order *)
(* of its writes is visible; no other task runs between them, because the  *)
(* microtask queue drains before the next task starts.                     *)
(***************************************************************************)
EXTENDS Naturals, FiniteSets, Sequences, TLC

VARIABLES
    user,       \* useState<User | null>(null)
    token,      \* useState<string | null>(null)
    isLoading,  \* useState(true)
    storage,    \* localStorage item 'token'
    hpc,        \* position of the hydrate effect
    inflight,   \* fetch requests whose response has not arrived
    sent,       \* number of fetch requests issued so far
    lastOp,     \* observer: the step that ran last, the state before it,
                \* the message it rejected to its caller with, and history
    page,       \* the route shown and the mounted page's error / loading
    cand        \* the candidates list page's state and its list requests

vars == <<user, token, isLoading, storage, hpc, inflight, sent, lastOp,
          page, cand>>

\* What the pages hold; the session store's operations leave it alone.
pageVars == <<page, cand>>

\* ---------------------------------------------------------------- bounds
\* fetch requests issued during one application lifetime: the `me` call of
\* the hydrate effect and the Login/Register calls made by the pages.
MaxRequests == 3
\* The pages make their calls of the other endpoints among the first
\* MaxApiRequests requests.
MaxApiRequests == 2
MaxListRequests == 3

\* ---------------------------------------------------------------- values
Null == "<null>"
Undefined == "<undefined>"

\* Non-empty bearer tokens: the ones the backend issues and the one a former
\* session may have left in storage.
Tokens == {"T1", "T2"}
\* User snapshots returned by the backend, named by their id.
Users == {"u1", "u2"}

Statuses == {"401", "500"}
Details == {"", "Invalid credentials"}

\* JavaScript truthiness of a string | null | undefined value.
Truthy(v) == v /= Null /\ v /= Undefined /\ v /= ""

\* ---------------------------------------------------------------- API client
\* What fetch() can produce for a failing call: a transport error (fetch
\* rejects), or a non-2xx response whose body is not JSON, is JSON without a
\* detail field, or is JSON with a detail string.
NetworkFailure ==
    [net |-> TRUE, status |-> "0", json |-> FALSE, detail |-> Undefined]

HttpFailures ==
    [net : {FALSE}, status : Statuses, json : {FALSE}, detail : {Undefined}]
    \cup [net : {FALSE}, status : Statuses, json : {TRUE},
          detail : Details \cup {Undefined}]

Failures == {NetworkFailure} \cup HttpFailures

\* The message of the TypeError fetch() rejects with.
FetchErrorMessage == "Failed to fetch"

\* Mutant: the stored token is preferred to the token option.
apiFetchBearerStoredFirst(tokenOpt, stored) ==
    IF Truthy(stored) THEN stored
    ELSE IF Truthy(tokenOpt) THEN tokenOpt
    ELSE Null

\* The Authorization bearer apiFetch attaches: the explicit token option, else
\* the stored token read at call time, else none.
apiFetchBearer(tokenOpt, stored) ==
    IF Truthy(tokenOpt) THEN tokenOpt
    ELSE IF Truthy(stored) THEN stored
    ELSE Null

\* Mutant: the fallback to `HTTP <status>` is lost.
apiFetchErrorNoFallback(res) ==
    IF res.net THEN FetchErrorMessage
    ELSE LET error == IF res.json THEN [detail |-> res.detail]
                      ELSE [detail |-> "Request failed"]
         IN  IF error.detail = Undefined THEN "" ELSE error.detail

\* The message of the Error apiFetch throws for a failing call.
apiFetchError(res) ==
    IF res.net THEN FetchErrorMessage
    ELSE LET error == IF res.json THEN [detail |-> res.detail]
                      ELSE [detail |-> "Request failed"]
         IN  IF Truthy(error.detail) THEN error.detail
             ELSE "HTTP " \o res.status

\* The message of the Error apiUpload throws for a failing call.
apiUploadError(res) ==
    IF res.net THEN FetchErrorMessage
    ELSE LET error == IF res.json THEN [detail |-> res.detail]
                      ELSE [detail |-> "Upload failed"]
         IN  IF Truthy(error.detail) THEN error.detail
             ELSE "HTTP " \o res.status

\* 2xx responses: a status and a body text.
SuccessStatuses == {"200", "204"}
JsonTexts == {"{\"total\":3}"}
BodyTexts == JsonTexts \cup {""}
Successes == [status : SuccessStatuses, body : BodyTexts]

NoResponse == [net |-> FALSE, status |-> "", json |-> FALSE,
               detail |-> Undefined, body |-> ""]
Failed(res) == [net |-> res.net, status |-> res.status, json |-> res.json,
                detail |-> res.detail, body |-> ""]
Succeeded(res) == [net |-> FALSE, status |-> res.status, json |-> FALSE,
                   detail |-> Undefined, body |-> res.body]

\* res.json(): the value a body text decodes to; texts outside JsonTexts make
\* it reject with a SyntaxError.
NoValue == [type |-> "none", total |-> Undefined]
EmptyObject == [type |-> "object", total |-> Undefined]
JsonParse(text) ==
    CASE text = "{\"total\":3}" -> [type |-> "object", total |-> "3"]
      [] OTHER -> NoValue
JsonSyntaxErrorMessage == "Unexpected end of JSON input"

\* Mutant: a 204 response is passed to res.json() like any other.
apiFetchResultNo204(res) == JsonParse(res.body)

\* What apiFetch resolves with for a 2xx response (NoValue: res.json()
\* rejected, and apiFetch with it).
apiFetchResult(res) ==
    IF res.status = "204" THEN EmptyObject ELSE JsonParse(res.body)

\* What apiUpload resolves with for a 2xx response.
apiUploadResult(res) == JsonParse(res.body)

\* The endpoint functions that pass method 'POST' and a JSON body.
JsonPostEndpoints == {"/auth/login", "/auth/register"}

\* A request apiFetch hands to fetch(): its endpoint, the bearer it carries,
\* the Content-Type header apiFetch always sets, and the method and body the
\* endpoint function passed (GET and no body when it passed none).
Request(endpoint, bearer) ==
    [id |-> sent + 1, endpoint |-> endpoint, bearer |-> bearer,
     contentType |-> "application/json",
     method |-> IF endpoint \in JsonPostEndpoints THEN "POST" ELSE "GET",
     body |-> IF endpoint \in JsonPostEndpoints THEN "json" ELSE Null]

\* Mutant: the upload names its content type, so no boundary is generated.
UploadRequestWithContentType(endpoint, bearer) ==
    [id |-> sent + 1, endpoint |-> endpoint, bearer |-> bearer,
     contentType |-> "multipart/form-data",
     method |-> "POST",
     body |-> "formdata"]

\* A request apiUpload hands to fetch(): a POST of the form, with no
\* Content-Type header.
UploadRequest(endpoint, bearer) ==
    [id |-> sent + 1, endpoint |-> endpoint, bearer |-> bearer,
     contentType |-> Null,
     method |-> "POST",
     body |-> "formdata"]

\* ---------------------------------------------------------------- observer
Snap ==
    [user |-> user, token |-> token, isLoading |-> isLoading,
     storage |-> storage, sent |-> sent, inflight |-> inflight]

\* The steps that are a successful Login or Register.
AuthOk == {"loginOk", "registerOk"}

\* Besides the step and the state before it (and, for a call of the API
\* client, the response it got and the value it resolved with: res, val; for
\* a call of apiFetch, tok is its token option), the observer carries what the
\* claims need of the past: the step before (prev), the last successful
\* Login/Register before this step and the request count when it resolved
\* (okBefore), the access tokens granted so far (granted), the token the
\* mount effect found in storage (found), the session as it was when the
\* application was last restarted (boot) and the token that the request
\* whose response set the current user was made with or answered by (userFor).
Op(name, req, tok, usr, msg) ==
    [op |-> name, req |-> req, tok |-> tok, usr |-> usr, msg |-> msg,
     pre |-> Snap,
     prev |-> lastOp.op,
     okBefore |-> IF lastOp.op \in AuthOk
                  THEN [op |-> lastOp.op, at |-> lastOp.pre.sent]
                  ELSE lastOp.okBefore,
     granted |-> IF name \in AuthOk THEN lastOp.granted \cup {tok}
                 ELSE lastOp.granted,
     found |-> IF name = "hydrate" THEN tok ELSE lastOp.found,
     boot |-> lastOp.boot,
     userFor |-> IF name \in AuthOk THEN tok
                 ELSE IF name = "meThen" THEN req.bearer
                 ELSE IF name \in {"logout", "restart"} THEN Null
                 ELSE lastOp.userFor,
     res |-> NoResponse,
     val |-> NoValue]

NoRequest == [id |-> 0, endpoint |-> "", bearer |-> Null,
              contentType |-> Null, method |-> "", body |-> Null]

\* ---------------------------------------------------------------- Init
\* The state after AuthProvider's first render: the three useState defaults,
\* the hydrate effect not yet run, and whatever a former session left in
\* localStorage.
SessionInit ==
    /\ user = Null
    /\ token = Null
    /\ isLoading = TRUE
    /\ storage \in Tokens \cup {Null}
    /\ hpc = "mount"
    /\ inflight = {}
    /\ sent = 0
    /\ lastOp = [op |-> "none", req |-> NoRequest, tok |-> Null, usr |-> Null,
                 msg |-> "",
                 pre |-> [user |-> Null, token |-> Null, isLoading |-> TRUE,
                          storage |-> storage, sent |-> 0, inflight |-> {}],
                 prev |-> "none",
                 okBefore |-> [op |-> "none", at |-> 0],
                 granted |-> {},
                 found |-> Null,
                 boot |-> [after |-> "none", user |-> Null, token |-> Null,
                           storage |-> Null],
                 userFor |-> Null,
                 res |-> NoResponse,
                 val |-> NoValue]

\* A page as it is when it mounts: useState('') for error, useState(false)
\* for loading, no submit awaited.
PageAt(route) == [route |-> route, error |-> "", loading |-> FALSE, req |-> 0]

\* No list request: the value of the observer fields before the first one.
NoListRequest == [id |-> 0, page |-> 0, search |-> ""]
NoListResponse == [ok |-> FALSE, total |-> 0]

\* The candidates page before it is opened, holding its useState defaults.
\* The list shown is named by the request that returned it (0: the initial
\* empty list).
CandClosed ==
    [open |-> FALSE, candidates |-> 0, total |-> 0, page |-> 1,
     search |-> "", loading |-> TRUE, importing |-> FALSE,
     imports |-> {}, pending |-> {}, issued |-> 0,
     last |-> NoListRequest, lastRes |-> NoListResponse]

\* The application opened at its root URL.
Init ==
    /\ SessionInit
    /\ page = PageAt("/")
    /\ cand = CandClosed

\* ---------------------------------------------------------------- Hydrate
\* Mutant: the stored token is not put in memory before `me` is called.
HydrateNoOptimisticToken ==
    /\ hpc = "mount"
    /\ LET stored == storage IN
       IF Truthy(stored)
       THEN /\ token' = token
            /\ inflight' = inflight \cup
                   {Request("/auth/me", apiFetchBearer(Undefined, storage))}
            /\ sent' = sent + 1
            /\ hpc' = "me"
            /\ isLoading' = isLoading
            /\ lastOp' = Op("hydrate", NoRequest, stored, Null, "")
       ELSE /\ isLoading' = FALSE
            /\ hpc' = "done"
            /\ lastOp' = Op("hydrate", NoRequest, Null, Null, "")
            /\ UNCHANGED <<token, inflight, sent>>
    /\ UNCHANGED <<user, storage>>

\* Mutant: `me` is called even when nothing is stored.
HydrateAlwaysCallsMe ==
    /\ hpc = "mount"
    /\ LET stored == storage IN
       /\ token' = stored
       /\ inflight' = inflight \cup
              {Request("/auth/me", apiFetchBearer(Undefined, storage))}
       /\ sent' = sent + 1
       /\ hpc' = "me"
       /\ isLoading' = isLoading
       /\ lastOp' = Op("hydrate", NoRequest, stored, Null, "")
    /\ UNCHANGED <<user, storage>>

\* The mount effect: read the stored token; if there is one, set it and call
\* authApi.me(), which builds its headers before it first suspends.
Hydrate ==
    /\ hpc = "mount"
    /\ LET stored == storage IN
       IF Truthy(stored)
       THEN /\ token' = stored
            /\ inflight' = inflight \cup
                   {Request("/auth/me", apiFetchBearer(Undefined, storage))}
            /\ sent' = sent + 1
            /\ hpc' = "me"
            /\ isLoading' = isLoading
            /\ lastOp' = Op("hydrate", NoRequest, stored, Null, "")
       ELSE /\ isLoading' = FALSE
            /\ hpc' = "done"
            /\ lastOp' = Op("hydrate", NoRequest, Null, Null, "")
            /\ UNCHANGED <<token, inflight, sent>>
    /\ UNCHANGED <<user, storage>>

\* .then((u) => setUser(u)): the `me` response is a 2xx carrying a User.
MeThen(r, u) ==
    /\ hpc = "me"
    /\ r \in inflight /\ r.endpoint = "/auth/me"
    /\ user' = u
    /\ inflight' = inflight \ {r}
    /\ hpc' = "finally"
    /\ lastOp' = Op("meThen", r, Null, u, "")
    /\ UNCHANGED <<token, isLoading, storage, sent>>

\* Mutant: the catch handler also skips the transition that follows it.
MeCatchStuck(r, res) ==
    /\ hpc = "me"
    /\ r \in inflight /\ r.endpoint = "/auth/me"
    /\ storage' = Null
    /\ token' = Null
    /\ inflight' = inflight \ {r}
    /\ hpc' = "done"
    /\ lastOp' = Op("meCatch", r, Null, Null, "")
    /\ UNCHANGED <<user, isLoading, sent>>

\* Mutant: the catch handler resets the session and rethrows.
MeCatchRethrows(r, res) ==
    /\ hpc = "me"
    /\ r \in inflight /\ r.endpoint = "/auth/me"
    /\ storage' = Null
    /\ token' = Null
    /\ inflight' = inflight \ {r}
    /\ hpc' = "finally"
    /\ lastOp' = Op("meCatch", r, Null, Null, apiFetchError(res))
    /\ UNCHANGED <<user, isLoading, sent>>

\* Mutant: the catch handler removes the stored token only.
MeCatchKeepsToken(r, res) ==
    /\ hpc = "me"
    /\ r \in inflight /\ r.endpoint = "/auth/me"
    /\ storage' = Null
    /\ inflight' = inflight \ {r}
    /\ hpc' = "finally"
    /\ lastOp' = Op("meCatch", r, Null, Null, "")
    /\ UNCHANGED <<user, token, isLoading, sent>>

\* .catch(() => { localStorage.removeItem('token'); setToken(null); }): the
\* `me` call failed, for whatever reason; the handler returns normally, so the
\* chain rejects with nothing.
MeCatch(r, res) ==
    /\ hpc = "me"
    /\ r \in inflight /\ r.endpoint = "/auth/me"
    /\ storage' = Null
    /\ token' = Null
    /\ inflight' = inflight \ {r}
    /\ hpc' = "finally"
    /\ lastOp' = Op("meCatch", r, Null, Null, "")
    /\ UNCHANGED <<user, isLoading, sent>>

\* .finally(() => setIsLoading(false)), in the same microtask drain.
MeFinally ==
    /\ hpc = "finally"
    /\ isLoading' = FALSE
    /\ hpc' = "done"
    /\ lastOp' = [lastOp EXCEPT !.op = IF lastOp.op = "meThen"
                                        THEN "hydratedOk" ELSE "hydratedFail"]
    /\ UNCHANGED <<user, token, storage, inflight, sent>>

\* A page can call the store once the mount effect has run and no microtask
\* of the hydrate chain is pending.
Idle == hpc \in {"me", "done"}


\* ---------------------------------------------------------------- Login
\* login(email, password) up to its await: authApi.login issues the request.
LoginCall ==
    /\ Idle
    /\ sent < MaxRequests
    /\ inflight' = inflight \cup
           {Request("/auth/login", apiFetchBearer(Undefined, storage))}
    /\ sent' = sent + 1
    /\ lastOp' = Op("loginCall", Request("/auth/login",
                        apiFetchBearer(Undefined, storage)), Null, Null, "")
    /\ UNCHANGED <<user, token, isLoading, storage, hpc>>

\* Mutant: the token is kept in memory but not written to localStorage.
LoginFulfilledNotPersisted(r, access_token, u) ==
    /\ Idle
    /\ r \in inflight /\ r.endpoint = "/auth/login"
    /\ token' = access_token
    /\ user' = u
    /\ inflight' = inflight \ {r}
    /\ lastOp' = Op("loginOk", r, access_token, u, "")
    /\ UNCHANGED <<storage, isLoading, hpc, sent>>

\* Mutant: the hydrate effect depends on the token, so a login re-arms it.
LoginFulfilledRehydrates(r, access_token, u) ==
    /\ Idle
    /\ r \in inflight /\ r.endpoint = "/auth/login"
    /\ storage' = access_token
    /\ token' = access_token
    /\ user' = u
    /\ inflight' = inflight \ {r}
    /\ hpc' = IF hpc = "done" THEN "mount" ELSE hpc
    /\ lastOp' = Op("loginOk", r, access_token, u, "")
    /\ UNCHANGED <<isLoading, sent>>

\* Mutant: a login only fills in a user that is missing.
LoginFulfilledKeepsUser(r, access_token, u) ==
    /\ Idle
    /\ r \in inflight /\ r.endpoint = "/auth/login"
    /\ storage' = access_token
    /\ token' = access_token
    /\ user' = IF user /= Null THEN user ELSE u
    /\ inflight' = inflight \ {r}
    /\ lastOp' = Op("loginOk", r, access_token, u, "")
    /\ UNCHANGED <<isLoading, hpc, sent>>

\* Mutant: the token is taken from the wrong field of the response.
LoginFulfilledTokenFromUser(r, access_token, u) ==
    /\ Idle
    /\ r \in inflight /\ r.endpoint = "/auth/login"
    /\ storage' = u
    /\ token' = u
    /\ user' = u
    /\ inflight' = inflight \ {r}
    /\ lastOp' = Op("loginOk", r, access_token, u, "")
    /\ UNCHANGED <<isLoading, hpc, sent>>

\* The continuation of login after a 2xx response {access_token, user}.
LoginFulfilled(r, access_token, u) ==
    /\ Idle
    /\ r \in inflight /\ r.endpoint = "/auth/login"
    /\ storage' = access_token
    /\ token' = access_token
    /\ user' = u
    /\ inflight' = inflight \ {r}
    /\ lastOp' = Op("loginOk", r, access_token, u, "")
    /\ UNCHANGED <<isLoading, hpc, sent>>

\* Mutant: a failed login logs the current user out.
LoginRejectedClears(r, res) ==
    /\ Idle
    /\ r \in inflight /\ r.endpoint = "/auth/login"
    /\ inflight' = inflight \ {r}
    /\ token' = Null
    /\ user' = Null
    /\ lastOp' = Op("loginFail", r, Null, Null, apiFetchError(res))
    /\ UNCHANGED <<isLoading, storage, hpc, sent>>

\* authApi.login threw: login rethrows to its caller and writes nothing.
LoginRejected(r, res) ==
    /\ Idle
    /\ r \in inflight /\ r.endpoint = "/auth/login"
    /\ inflight' = inflight \ {r}
    /\ lastOp' = Op("loginFail", r, Null, Null, apiFetchError(res))
    /\ UNCHANGED <<user, token, isLoading, storage, hpc, sent>>

\* ---------------------------------------------------------------- Register
\* register(...) up to its await: authApi.register issues the request.
RegisterCall ==
    /\ Idle
    /\ sent < MaxRequests
    /\ inflight' = inflight \cup
           {Request("/auth/register", apiFetchBearer(Undefined, storage))}
    /\ sent' = sent + 1
    /\ lastOp' = Op("registerCall", Request("/auth/register",
                        apiFetchBearer(Undefined, storage)), Null, Null, "")
    /\ UNCHANGED <<user, token, isLoading, storage, hpc>>

\* Mutant: registration stores the token but leaves the user to a later login.
RegisterFulfilledNoUser(r, access_token, u) ==
    /\ Idle
    /\ r \in inflight /\ r.endpoint = "/auth/register"
    /\ storage' = access_token
    /\ token' = access_token
    /\ inflight' = inflight \ {r}
    /\ lastOp' = Op("registerOk", r, access_token, u, "")
    /\ UNCHANGED <<user, isLoading, hpc, sent>>

\* The continuation of register after a 2xx response {access_token, user}.
RegisterFulfilled(r, access_token, u) ==
    /\ Idle
    /\ r \in inflight /\ r.endpoint = "/auth/register"
    /\ storage' = access_token
    /\ token' = access_token
    /\ user' = u
    /\ inflight' = inflight \ {r}
    /\ lastOp' = Op("registerOk", r, access_token, u, "")
    /\ UNCHANGED <<isLoading, hpc, sent>>

\* authApi.register threw: register rethrows and writes nothing.
RegisterRejected(r, res) ==
    /\ Idle
    /\ r \in inflight /\ r.endpoint = "/auth/register"
    /\ inflight' = inflight \ {r}
    /\ lastOp' = Op("registerFail", r, Null, Null, apiFetchError(res))
    /\ UNCHANGED <<user, token, isLoading, storage, hpc, sent>>

\* ---------------------------------------------------------------- Logout
\* Mutant: logout forgets the stored token.
LogoutKeepsStorage ==
    /\ Idle
    /\ token' = Null
    /\ user' = Null
    /\ lastOp' = Op("logout", NoRequest, Null, Null, "")
    /\ UNCHANGED <<storage, isLoading, hpc, inflight, sent>>

\* Mutant: logout puts the store back into its loading state.
LogoutResetsLoading ==
    /\ Idle
    /\ storage' = Null
    /\ token' = Null
    /\ user' = Null
    /\ isLoading' = TRUE
    /\ lastOp' = Op("logout", NoRequest, Null, Null, "")
    /\ UNCHANGED <<hpc, inflight, sent>>

\* Mutant: logout overwrites the stored token with an empty string.
LogoutStoresEmpty ==
    /\ Idle
    /\ storage' = ""
    /\ token' = Null
    /\ user' = Null
    /\ lastOp' = Op("logout", NoRequest, Null, Null, "")
    /\ UNCHANGED <<isLoading, hpc, inflight, sent>>

\* logout(): three synchronous writes, no call to the API client.
Logout ==
    /\ Idle
    /\ storage' = Null
    /\ token' = Null
    /\ user' = Null
    /\ lastOp' = Op("logout", NoRequest, Null, Null, "")
    /\ UNCHANGED <<isLoading, hpc, inflight, sent>>

\* ---------------------------------------------------------------- Next
MeResponse ==
    \E r \in inflight :
        \/ \E u \in Users : MeThen(r, u)
        \/ \E res \in Failures : MeCatch(r, res)

LoginResponse ==
    \E r \in inflight :
        \/ \E t \in Tokens, u \in Users : LoginFulfilled(r, t, u)
        \/ \E res \in Failures : LoginRejected(r, res)

RegisterResponse ==
    \E r \in inflight :
        \/ \E t \in Tokens, u \in Users : RegisterFulfilled(r, t, u)
        \/ \E res \in Failures : RegisterRejected(r, res)

Next ==
    \/ Hydrate /\ UNCHANGED pageVars
    \/ MeResponse /\ UNCHANGED pageVars
    \/ MeFinally /\ UNCHANGED pageVars
    \/ LoginCall /\ UNCHANGED pageVars
    \/ LoginResponse /\ UNCHANGED pageVars
    \/ RegisterCall /\ UNCHANGED pageVars
    \/ RegisterResponse /\ UNCHANGED pageVars
    \/ Logout /\ UNCHANGED pageVars

Spec == Init /\ [][Next]_vars

\* The mount effect always runs, a settled promise always runs its handlers,
\* and every `me` request completes.
LiveSpec ==
    /\ Spec
    /\ WF_vars(Hydrate /\ UNCHANGED pageVars)
    /\ WF_vars(MeResponse /\ UNCHANGED pageVars)
    /\ WF_vars(MeFinally /\ UNCHANGED pageVars)


\* ---------------------------------------------------------------- API calls
\* A page calls an endpoint function (jobsApi.list, candidatesApi.get, ...):
\* apiFetch builds the headers and hands the request to fetch().  Pages'
\* effects may run before the provider's mount effect.  No endpoint function
\* passes the token option; apiFetch accepts one.
ApiFetchCall(tokenOpt) ==
    /\ hpc /= "finally"
    /\ sent < MaxApiRequests
    /\ inflight' = inflight \cup
           {Request("/jobs/", apiFetchBearer(tokenOpt, storage))}
    /\ sent' = sent + 1
    /\ lastOp' = Op("apiCall", Request("/jobs/",
                        apiFetchBearer(tokenOpt, storage)), tokenOpt, Null, "")
    /\ UNCHANGED <<user, token, isLoading, storage, hpc>>

\* apiFetch after a 2xx response: {} for 204, else res.json(), whose
\* rejection is apiFetch's.
ApiFetchFulfilled(r, res) ==
    /\ hpc /= "finally"
    /\ r \in inflight /\ r.endpoint = "/jobs/"
    /\ inflight' = inflight \ {r}
    /\ LET v == apiFetchResult(res) IN
       lastOp' = IF v = NoValue
                 THEN [Op("apiFail", r, Null, Null, JsonSyntaxErrorMessage)
                          EXCEPT !.res = Succeeded(res)]
                 ELSE [Op("apiOk", r, Null, Null, "")
                          EXCEPT !.res = Succeeded(res), !.val = v]
    /\ UNCHANGED <<user, token, isLoading, storage, hpc, sent>>

\* Mutant: a 401 is taken as the end of the session.
ApiFetchRejectedLogsOut(r, res) ==
    /\ hpc /= "finally"
    /\ r \in inflight /\ r.endpoint = "/jobs/"
    /\ inflight' = inflight \ {r}
    /\ storage' = IF res.status = "401" THEN Null ELSE storage
    /\ token' = IF res.status = "401" THEN Null ELSE token
    /\ lastOp' = [Op("apiFail", r, Null, Null, apiFetchError(res))
                     EXCEPT !.res = Failed(res)]
    /\ UNCHANGED <<user, isLoading, hpc, sent>>

\* apiFetch after a transport error or a non-2xx response: it throws.
ApiFetchRejected(r, res) ==
    /\ hpc /= "finally"
    /\ r \in inflight /\ r.endpoint = "/jobs/"
    /\ inflight' = inflight \ {r}
    /\ lastOp' = [Op("apiFail", r, Null, Null, apiFetchError(res))
                     EXCEPT !.res = Failed(res)]
    /\ UNCHANGED <<user, token, isLoading, storage, hpc, sent>>

\* A page calls jobsApi.upload or candidatesApi.import: apiUpload attaches
\* the stored token and posts the form.
ApiUploadCall ==
    /\ hpc /= "finally"
    /\ sent < MaxApiRequests
    /\ LET stored == storage
           req == UploadRequest("/jobs/upload",
                                IF Truthy(stored) THEN stored ELSE Null)
       IN  /\ inflight' = inflight \cup {req}
           /\ lastOp' = Op("uploadCall", req, Undefined, Null, "")
    /\ sent' = sent + 1
    /\ UNCHANGED <<user, token, isLoading, storage, hpc>>

\* apiUpload after a 2xx response: always res.json().
ApiUploadFulfilled(r, res) ==
    /\ hpc /= "finally"
    /\ r \in inflight /\ r.endpoint = "/jobs/upload"
    /\ inflight' = inflight \ {r}
    /\ LET v == apiUploadResult(res) IN
       lastOp' = IF v = NoValue
                 THEN [Op("uploadFail", r, Null, Null, JsonSyntaxErrorMessage)
                          EXCEPT !.res = Succeeded(res)]
                 ELSE [Op("uploadOk", r, Null, Null, "")
                          EXCEPT !.res = Succeeded(res), !.val = v]
    /\ UNCHANGED <<user, token, isLoading, storage, hpc, sent>>

\* apiUpload after a transport error or a non-2xx response: it throws.
ApiUploadRejected(r, res) ==
    /\ hpc /= "finally"
    /\ r \in inflight /\ r.endpoint = "/jobs/upload"
    /\ inflight' = inflight \ {r}
    /\ lastOp' = [Op("uploadFail", r, Null, Null, apiUploadError(res))
                     EXCEPT !.res = Failed(res)]
    /\ UNCHANGED <<user, token, isLoading, storage, hpc, sent>>

ApiCall ==
    \/ \E tokenOpt \in Tokens \cup {Undefined} : ApiFetchCall(tokenOpt)
    \/ ApiUploadCall

ApiResponse ==
    \E r \in inflight :
        \/ \E res \in Successes : ApiFetchFulfilled(r, res)
        \/ \E res \in Failures : ApiFetchRejected(r, res)
        \/ \E res \in Successes : ApiUploadFulfilled(r, res)
        \/ \E res \in Failures : ApiUploadRejected(r, res)

\* The pages' calls of the API client next to the session store's Hydrate,
\* Login and Logout (Register, which is Login's code on another endpoint, is
\* left to Spec).
ApiNext ==
    \/ Hydrate /\ UNCHANGED pageVars
    \/ MeResponse /\ UNCHANGED pageVars
    \/ MeFinally /\ UNCHANGED pageVars
    \/ LoginCall /\ UNCHANGED pageVars
    \/ LoginResponse /\ UNCHANGED pageVars
    \/ Logout /\ UNCHANGED pageVars
    \/ ApiCall /\ UNCHANGED pageVars
    \/ ApiResponse /\ UNCHANGED pageVars

ApiSpec == Init /\ [][ApiNext]_vars

\* ---------------------------------------------------------------- Restart
\* The page is reloaded: AuthProvider is constructed afresh (the useState
\* defaults, the mount effect pending again), the requests of the old page
\* are dropped with it, and localStorage is kept.
Restart ==
    /\ Idle
    /\ sent < MaxRequests
    /\ user' = Null
    /\ token' = Null
    /\ isLoading' = TRUE
    /\ hpc' = "mount"
    /\ inflight' = {}
    /\ lastOp' = [Op("restart", NoRequest, Null, Null, "") EXCEPT
                      !.boot = [after |-> lastOp.op, user |-> user,
                                token |-> token, storage |-> storage]]
    /\ UNCHANGED <<storage, sent>>

\* The session store over several lifetimes of the application.
RestartSpec == Init /\ [][Next \/ (Restart /\ UNCHANGED pageVars)]_vars

\* ================================================================ claims
Pre == lastOp.pre

MeInFlight(bearer) ==
    \E r \in inflight : r.endpoint = "/auth/me" /\ r.bearer = bearer

\* C1: in every reachable state, if user is present then token is present.
\* Stated as the claim has it; a `me` response that arrives after a Logout,
\* or a `me` failure that arrives after a successful Login, breaks it.
C1_UserImpliesToken == user /= Null => token /= Null

\* C2: right after an accepted Login resolves, token and user are those of
\* the response and the stored token equals the token in memory.
C2_LoginSuccessSetsSession ==
    lastOp.op = "loginOk" =>
        /\ token = lastOp.tok
        /\ user = lastOp.usr
        /\ storage = token

\* An accepted Login that replaces the session of another user.
C2_Witness ==
    /\ lastOp.op = "loginOk"
    /\ Pre.token /= Null /\ Pre.token /= token
    /\ Pre.user /= Null /\ Pre.user /= user

\* C3: a failed Login leaves token, user, isLoading and the stored token as
\* they were, and rejects with a non-empty message.
C3_LoginFailureChangesNothing ==
    lastOp.op = "loginFail" =>
        /\ token = Pre.token
        /\ user = Pre.user
        /\ isLoading = Pre.isLoading
        /\ storage = Pre.storage
        /\ lastOp.msg /= ""

\* A Login refused with an empty detail while another user is logged in.
C3_Witness ==
    /\ lastOp.op = "loginFail"
    /\ lastOp.msg = "HTTP 401"
    /\ token /= Null /\ user /= Null /\ storage = token

\* C4: Register has Login's contract: a success stores the returned token and
\* sets token and user from the response; a failure changes none of them.
C4_RegisterLikeLogin ==
    /\ lastOp.op = "registerOk" =>
        /\ storage = lastOp.tok
        /\ token = lastOp.tok
        /\ user = lastOp.usr
    /\ lastOp.op = "registerFail" =>
        /\ token = Pre.token
        /\ user = Pre.user
        /\ storage = Pre.storage

\* A registration that logs in from the anonymous state.
C4_Witness ==
    /\ lastOp.op = "registerOk"
    /\ Pre.token = Null /\ Pre.user = Null /\ Pre.storage = Null
    /\ token \in Tokens /\ user \in Users

\* C5: Logout, from any state, removes the stored token and clears token and
\* user; it issues no request, leaves isLoading alone and has no failing case.
C5_LogoutClearsEverything ==
    /\ lastOp.op = "logout" =>
        /\ storage = Null
        /\ token = Null
        /\ user = Null
        /\ isLoading = Pre.isLoading
        /\ sent = Pre.sent
        /\ inflight = Pre.inflight
    /\ Idle => ENABLED Logout

\* A Logout of a logged-in user while a request is still in flight.
C5_Witness ==
    /\ lastOp.op = "logout"
    /\ Pre.token /= Null /\ Pre.user /= Null /\ Pre.storage /= Null
    /\ Pre.inflight /= {}

\* C6: when the `me` call of Hydrate fails, Hydrate completes with token and
\* user absent and the stored token removed.  Stated as the claim has it; a
\* Login that succeeded while `me` was in flight leaves its user behind.
C6_FailedHydrateEndsAnonymous ==
    lastOp.op = "hydratedFail" =>
        /\ token = Null
        /\ user = Null
        /\ storage = Null

\* C7: Hydrate with a stored token puts it in memory while still loading and
\* sends `me` with it as bearer; while `me` is in flight the store is loading;
\* a successful `me` sets user to the returned User and leaves token alone.
C7_HydrateWithStoredToken ==
    /\ (lastOp.op = "hydrate" /\ Pre.storage /= Null) =>
        /\ token = Pre.storage
        /\ isLoading
        /\ MeInFlight(Pre.storage)
    /\ hpc = "me" => isLoading /\ \E b \in Tokens : MeInFlight(b)
    /\ lastOp.op = "meThen" =>
        /\ user = lastOp.usr
        /\ token = Pre.token

\* `me` accepted the stored token: user set, token still the stored one.
C7_Witness ==
    /\ lastOp.op = "meThen"
    /\ user \in Users
    /\ token = lastOp.req.bearer /\ token \in Tokens
    /\ isLoading

\* C8: Hydrate without a stored token goes straight to Ready, with user and
\* token absent and no request issued.
C8_HydrateWithoutToken ==
    (lastOp.op = "hydrate" /\ Pre.storage = Null) =>
        /\ isLoading = FALSE
        /\ hpc = "done"
        /\ user = Null
        /\ token = Null
        /\ sent = 0
        /\ inflight = {}

\* The mount effect has run on empty storage.
C8_Witness ==
    /\ lastOp.op = "hydrate"
    /\ Pre.storage = Null
    /\ isLoading = FALSE

\* C9: if every `me` request completes, the store eventually is Ready,
\* whatever Login, Register and Logout calls run meanwhile.
C9_EventuallyReady == <>(isLoading = FALSE)

\* Hydrate completed by a failing `me` after a Login was issued and resolved.
C9_Witness ==
    /\ lastOp.op = "hydratedFail"
    /\ isLoading = FALSE
    /\ Pre.sent >= 2
    /\ Pre.user /= Null

\* C10: isLoading starts true and, once false, no step sets it back to true.
C10_ReadyIsOneWay ==
    /\ isLoading = TRUE
    /\ [][isLoading = FALSE => isLoading' = FALSE]_vars

\* A Login resolved and a Logout ran after the store became Ready.
C10_Witness ==
    /\ isLoading = FALSE
    /\ lastOp.op = "logout"
    /\ Pre.isLoading = FALSE
    /\ Pre.user /= Null


\* C11: Hydrate runs once: the effect never becomes pending again after it
\* has run, and a `me` request is only ever issued by that one run, so no
\* Login, Register or Logout re-triggers it.
C11_HydrateRunsOnce ==
    [][ /\ hpc' = "mount" => hpc = "mount"
        /\ (\E r \in inflight' \ inflight : r.endpoint = "/auth/me")
               => (hpc = "mount" /\ hpc' = "me")
        /\ (lastOp'.found /= lastOp.found) => hpc = "mount" ]_vars

\* Hydrate found a token and completed; a Login then succeeded and a Logout
\* ran, and the effect is still done.
C11_Witness ==
    /\ hpc = "done"
    /\ lastOp.found \in Tokens
    /\ lastOp.op = "logout"
    /\ lastOp.prev \in AuthOk

\* C12: when an auth operation's successful response arrives last, after
\* another auth operation was issued while it was in flight, the token, the
\* user and the stored token are all those of that last operation (for
\* Hydrate: the token it found and the user `me` returned).  Stated as the
\* claim has it; a `me` response arriving after a Login's keeps the Login's
\* token next to the user of `me`.
C12_LastResponseWins ==
    (/\ lastOp.op \in AuthOk \cup {"meThen"}
     /\ lastOp.req.id < Pre.sent
     /\ inflight = {})
    => LET t == IF lastOp.op = "meThen" THEN lastOp.req.bearer
                ELSE lastOp.tok
       IN  /\ token = t
           /\ user = lastOp.usr
           /\ storage = t


\* C13: restart right after a successful Login, then Hydrate with a `me`
\* that returns the same user and nothing else in between: the session is
\* the one the Login left (same token, same user, same stored token), Ready.
C13_LoginRestartRoundTrip ==
    (/\ lastOp.op = "hydratedOk"
     /\ lastOp.prev = "hydrate"
     /\ lastOp.boot.after = "loginOk"
     /\ lastOp.usr = lastOp.boot.user)
    => /\ token = lastOp.boot.token
       /\ user = lastOp.boot.user
       /\ storage = lastOp.boot.storage
       /\ isLoading = FALSE

\* The round trip completed for a Login that replaced an older stored token.
C13_Witness ==
    /\ lastOp.op = "hydratedOk"
    /\ lastOp.prev = "hydrate"
    /\ lastOp.boot.after = "loginOk"
    /\ lastOp.usr = lastOp.boot.user
    /\ token \in Tokens /\ user \in Users
    /\ token = lastOp.req.bearer


Anonymous(st) == st.token = Null /\ st.user = Null /\ st.storage = Null

\* C14: a Logout of an anonymous session changes neither the session nor the
\* storage and does not throw; a Logout right after a Logout changes nothing.
C14_LogoutIdempotent ==
    /\ (lastOp.op = "logout" /\ Anonymous(Pre)) =>
        /\ Snap = Pre
        /\ lastOp.msg = ""
    /\ (lastOp.op = "logout" /\ lastOp.prev = "logout") => Snap = Pre
    /\ (Idle /\ Anonymous(Snap)) => ENABLED Logout

\* Two Logouts in a row, the second on the anonymous session of the first.
C14_Witness ==
    /\ lastOp.op = "logout"
    /\ lastOp.prev = "logout"
    /\ Anonymous(Pre)
    /\ lastOp.granted /= {}

\* C15: when a Login succeeds whose request was issued after an earlier
\* successful Login had resolved, token, user and stored token are exactly
\* those of the second response.
C15_SecondLoginReplacesFirst ==
    (/\ lastOp.op = "loginOk"
     /\ lastOp.okBefore.op = "loginOk"
     /\ lastOp.req.id > lastOp.okBefore.at)
    => /\ token = lastOp.tok
       /\ user = lastOp.usr
       /\ storage = lastOp.tok

\* The second of two sequential Logins, for another user and token, with the
\* first Login's session still in place when it resolved.
C15_Witness ==
    /\ lastOp.op = "loginOk"
    /\ lastOp.okBefore.op = "loginOk"
    /\ lastOp.req.id > lastOp.okBefore.at
    /\ lastOp.prev = "loginCall"
    /\ Pre.token \in Tokens /\ Pre.token /= token
    /\ Pre.user \in Users /\ Pre.user /= user

\* C16: a failing `me` surfaces nothing: the hydrate chain rejects with no
\* error, and its only effects are the cleared token, the removed stored
\* token and the transition to Ready.
C16_HydrateFailureSwallowed ==
    /\ lastOp.op \in {"meCatch", "hydratedFail"} =>
        /\ lastOp.msg = ""
        /\ token = Null
        /\ storage = Null
        /\ user = Pre.user
        /\ sent = Pre.sent
        /\ inflight = Pre.inflight \ {lastOp.req}
    /\ lastOp.op = "meCatch" => isLoading = Pre.isLoading
    /\ lastOp.op = "hydratedFail" => isLoading = FALSE

\* Hydrate completed after `me` refused the stored token.
C16_Witness ==
    /\ lastOp.op = "hydratedFail"
    /\ Pre.token \in Tokens /\ Pre.storage = Pre.token
    /\ lastOp.req.bearer = Pre.token
    /\ isLoading = FALSE

Provenance == lastOp.granted \cup ({lastOp.found} \ {Null})

\* C17 as stated: the token is present if and only if a Login or Register
\* has succeeded or Hydrate found a stored token.  A Logout (or a failing
\* `me`) makes the token absent again, so the "if" part fails.
C17_TokenIffAuthSucceeded ==
    token /= Null <=> Provenance /= {}

\* C17 as amended: a present token is the token Hydrate found in storage or
\* the access_token of a successful Login or Register response.
C17_TokenProvenance ==
    token /= Null => token \in Provenance

\* The token in memory is a granted one, other than the one Hydrate found.
C17_Witness ==
    /\ token \in lastOp.granted
    /\ lastOp.found \in Tokens
    /\ token /= lastOp.found


\* C18: an apiFetch call with a token option carries that token as bearer
\* whatever storage holds; without one it carries the token stored at the
\* moment of the call: the new token right after a Login, none right after
\* a Logout.
C18_TokenResolution ==
    lastOp.op = "apiCall" =>
        /\ lastOp.tok \in Tokens => lastOp.req.bearer = lastOp.tok
        /\ lastOp.tok = Undefined => lastOp.req.bearer = Pre.storage
        /\ (lastOp.tok = Undefined /\ lastOp.prev = "loginOk")
               => lastOp.req.bearer = Pre.token
        /\ (lastOp.tok = Undefined /\ lastOp.prev = "logout")
               => lastOp.req.bearer = Null
        /\ lastOp.req \in inflight

\* A call with a token option other than the stored token.
C18_Witness ==
    /\ lastOp.op = "apiCall"
    /\ lastOp.tok \in Tokens
    /\ Pre.storage \in Tokens /\ Pre.storage /= lastOp.tok
    /\ lastOp.req.bearer = lastOp.tok

NonOk(res) == ~res.net /\ res.status \in Statuses

Fallback == IF lastOp.op = "apiFail" THEN "Request failed" ELSE "Upload failed"

\* C19 as stated: a non-2xx response rejects with the body's detail when the
\* body is JSON and has a detail field, with the fixed fallback when the body
\* is not JSON, and with 'HTTP <status>' when the body is JSON without a
\* detail field.  An empty detail is replaced by 'HTTP <status>'.
C19_ErrorMessageAsStated ==
    (lastOp.op \in {"apiFail", "uploadFail"} /\ NonOk(lastOp.res)) =>
        lastOp.msg =
            IF ~lastOp.res.json THEN Fallback
            ELSE IF lastOp.res.detail /= Undefined THEN lastOp.res.detail
            ELSE "HTTP " \o lastOp.res.status

\* C19 as amended: the detail is the message only when it is not empty; an
\* empty detail gives 'HTTP <status>' like a missing one.
C19_ErrorMessage ==
    (lastOp.op \in {"apiFail", "uploadFail"} /\ NonOk(lastOp.res)) =>
        lastOp.msg =
            IF ~lastOp.res.json THEN Fallback
            ELSE IF lastOp.res.detail \notin {Undefined, ""}
                 THEN lastOp.res.detail
            ELSE "HTTP " \o lastOp.res.status

\* An apiFetch call refused with a JSON body that has no detail field.
C19_Witness ==
    /\ lastOp.op = "apiFail"
    /\ NonOk(lastOp.res)
    /\ lastOp.res.json /\ lastOp.res.detail = Undefined
    /\ lastOp.msg = "HTTP 500"

\* C20: apiFetch resolves a 204 response with an empty object, and any other
\* 2xx response whose body is JSON with the decoded body.
C20_SuccessDecoding ==
    /\ lastOp.op = "apiOk" =>
        /\ lastOp.res.status = "204" => lastOp.val = EmptyObject
        /\ lastOp.res.status /= "204" => lastOp.val = JsonParse(lastOp.res.body)
        /\ lastOp.val /= NoValue
    /\ (lastOp.op = "apiFail" /\ lastOp.res.status \in SuccessStatuses) =>
        /\ lastOp.res.status /= "204"
        /\ lastOp.res.body \notin JsonTexts

\* A 204 response, which has no body to decode, resolved with {}.
C20_Witness ==
    /\ lastOp.op = "apiOk"
    /\ lastOp.res.status = "204"
    /\ lastOp.res.body = ""
    /\ lastOp.val = EmptyObject


\* C21: a call of the API client issues one request and never another for
\* it; a failing call, whatever its status, leaves token, user and the stored
\* token as they were (Hydrate's own reset aside).
C21_OneRequestNoSessionChange ==
    /\ lastOp.op \in {"apiCall", "uploadCall", "loginCall"} =>
        /\ sent = Pre.sent + 1
        /\ inflight = Pre.inflight \cup {lastOp.req}
    /\ lastOp.op \in {"apiFail", "uploadFail", "loginFail"} =>
        /\ sent = Pre.sent
        /\ inflight = Pre.inflight \ {lastOp.req}
        /\ token = Pre.token
        /\ user = Pre.user
        /\ storage = Pre.storage

\* A 401 on a data call of a logged-in session.
C21_Witness ==
    /\ lastOp.op = "apiFail"
    /\ lastOp.res.status = "401"
    /\ token \in Tokens /\ user \in Users /\ storage = token


\* C22: an upload is a POST of the multipart form with no Content-Type
\* header and with the stored token, if any, as its only header; every other
\* request carries Content-Type application/json.
C22_BodyEncoding ==
    /\ lastOp.op = "uploadCall" =>
        /\ lastOp.req.method = "POST"
        /\ lastOp.req.body = "formdata"
        /\ lastOp.req.contentType = Null
        /\ lastOp.req.bearer = Pre.storage
        /\ lastOp.req \in inflight
    /\ \A r \in inflight :
        IF r.endpoint = "/jobs/upload"
        THEN r.contentType = Null
        ELSE r.contentType = "application/json"

\* An upload by a logged-in session issued next to a JSON request.
C22_Witness ==
    /\ lastOp.op = "uploadCall"
    /\ lastOp.req.bearer \in Tokens
    /\ \E r \in inflight : r.contentType = "application/json"


AuthEndpoints == {"/auth/me", "/auth/login", "/auth/register"}
AuthInFlight == \E r \in inflight : r.endpoint \in AuthEndpoints

\* C25: when the store is Ready and no auth request is in flight, token and
\* user are both present or both absent.  Stated as the claim has it; the
\* races of C1 leave a user without a token in such a state.
C25_ReadyIsAuthenticatedOrAnonymous ==
    (isLoading = FALSE /\ ~AuthInFlight) =>
        \/ token /= Null /\ user /= Null
        \/ token = Null /\ user = Null

\* C26: in every state with isLoading false, a present token comes with a
\* present user.
C26_ReadyTokenHasUser ==
    isLoading = FALSE => (token /= Null => user /= Null)

\* Hydrate completed right after a Login resolved while `me` was in flight.
C26_Witness ==
    /\ lastOp.op = "hydratedOk"
    /\ lastOp.prev = "loginOk"
    /\ isLoading = FALSE
    /\ token \in Tokens /\ user \in Users

\* C27: once the mount effect has run, the token in memory and the stored
\* token are equal: both absent or the same string.
C27_TokenEqualsStored ==
    hpc /= "mount" => token = storage

\* A granted token, other than the one Hydrate found, in memory and stored.
C27_Witness ==
    /\ hpc = "done"
    /\ lastOp.found \in Tokens
    /\ token \in Tokens /\ token /= lastOp.found
    /\ storage = token

\* C28: when token and user are both present, the user was returned by the
\* backend for that token: by the Login or Register response that delivered
\* it, or by a `me` request made with it.  Stated as the claim has it; a `me`
\* response for the token Hydrate found sets the user of a session that a
\* Login has meanwhile given another token.
C28_UserBelongsToToken ==
    (token /= Null /\ user /= Null) => lastOp.userFor = token

\* C29: a failing `me` made with an older token than the one a Login or
\* Register has since put in place removes neither the stored token nor the
\* token in memory.  Stated as the claim has it; the catch handler clears
\* both whatever they hold.
C29_FailedMeKeepsNewerToken ==
    (/\ lastOp.op \in {"meCatch", "hydratedFail"}
     /\ Pre.token \in lastOp.granted
     /\ Pre.token /= lastOp.req.bearer)
    => /\ storage = Pre.storage
       /\ token = Pre.token


\* ================================================================ pages
\* The URLs the application can be opened at.
EntryRoutes == {"/", "/login", "/register"}

PageInit ==
    /\ SessionInit
    /\ page \in {PageAt(rt) : rt \in EntryRoutes}
    /\ cand = CandClosed

\* Mutant: the Home effect without its isLoading test.
HomeEffectIgnoresLoading ==
    /\ page.route = "/"
    /\ hpc /= "mount"
    /\ page' = PageAt(IF user /= Null THEN "/dashboard" ELSE "/login")
    /\ lastOp' = Op("homeReplace", NoRequest, Null, Null, "")
    /\ UNCHANGED <<user, token, isLoading, storage, hpc, inflight, sent>>

\* Home's effect on [user, isLoading, router]:
\* if (!isLoading) router.replace(user ? '/dashboard' : '/login').
HomeEffect ==
    /\ page.route = "/"
    /\ isLoading = FALSE
    /\ page' = PageAt(IF user /= Null THEN "/dashboard" ELSE "/login")
    /\ lastOp' = Op("homeReplace", NoRequest, Null, Null, "")
    /\ UNCHANGED <<user, token, isLoading, storage, hpc, inflight, sent>>

\* <Link href="/register"> on the login page and <Link href="/login"> on the
\* register page: the page shown unmounts and the other one mounts.
FollowLink ==
    /\ page.route \in {"/login", "/register"}
    /\ hpc /= "mount"
    /\ page' = PageAt(IF page.route = "/login" THEN "/register" ELSE "/login")
    /\ lastOp' = Op("link", NoRequest, Null, Null, "")
    /\ UNCHANGED <<user, token, isLoading, storage, hpc, inflight, sent>>

\* Mutant: handleSubmit without setError('').
SubmitStartedKeepsError == [page EXCEPT !.loading = TRUE, !.req = sent + 1]

\* handleSubmit up to its await: setError(''); setLoading(true).
SubmitStarted == [page EXCEPT !.error = "", !.loading = TRUE, !.req = sent + 1]

\* handleSubmit after the awaited call resolved: router.push('/dashboard'),
\* then setLoading(false) in the finally block.  The continuation of a page
\* that has unmounted meanwhile still navigates; its setState calls are
\* no-ops.
SubmitResolved(r) ==
    IF r.id = page.req
    THEN [page EXCEPT !.route = "/dashboard", !.loading = FALSE, !.req = 0]
    ELSE [page EXCEPT !.route = "/dashboard"]

\* handleSubmit after the awaited call rejected:
\* setError(err.message || fallback), then setLoading(false).
SubmitRejected(r, message, fallback) ==
    IF r.id = page.req
    THEN [page EXCEPT !.error = IF Truthy(message) THEN message ELSE fallback,
                      !.loading = FALSE, !.req = 0]
    ELSE page

\* The login form is submitted; its button is disabled while loading.
LoginPageSubmit ==
    /\ page.route = "/login"
    /\ page.loading = FALSE
    /\ LoginCall
    /\ page' = SubmitStarted

LoginPageResponse ==
    \E r \in inflight :
        \/ \E t \in Tokens, u \in Users :
              LoginFulfilled(r, t, u) /\ page' = SubmitResolved(r)
        \/ \E res \in Failures :
              /\ LoginRejected(r, res)
              /\ page' = SubmitRejected(r, lastOp'.msg, "Login failed")

\* The register form is submitted; its button is disabled while loading.
RegisterPageSubmit ==
    /\ page.route = "/register"
    /\ page.loading = FALSE
    /\ RegisterCall
    /\ page' = SubmitStarted

RegisterPageResponse ==
    \E r \in inflight :
        \/ \E t \in Tokens, u \in Users :
              RegisterFulfilled(r, t, u) /\ page' = SubmitResolved(r)
        \/ \E res \in Failures :
              /\ RegisterRejected(r, res)
              /\ page' = SubmitRejected(r, lastOp'.msg, "Registration failed")

PageNext ==
    \/ Hydrate /\ UNCHANGED pageVars
    \/ MeResponse /\ UNCHANGED pageVars
    \/ MeFinally /\ UNCHANGED pageVars
    \/ HomeEffect /\ UNCHANGED cand
    \/ FollowLink /\ UNCHANGED cand
    \/ LoginPageSubmit /\ UNCHANGED cand
    \/ LoginPageResponse /\ UNCHANGED cand
    \/ RegisterPageSubmit /\ UNCHANGED cand
    \/ RegisterPageResponse /\ UNCHANGED cand

\* The Home, login and register pages over the session store.
PageSpec == PageInit /\ [][PageNext]_vars

\* C23: the Home page navigates only when the session is Ready, then to
\* '/dashboard' if user is present and to '/login' otherwise, and it can
\* always do so once Ready; after a Hydrate whose `me` was accepted it goes
\* to '/dashboard'.
C23_HomeNavigation ==
    /\ [][(page.route = "/" /\ page'.route /= "/") =>
            /\ isLoading = FALSE
            /\ page'.route = (IF user /= Null THEN "/dashboard" ELSE "/login")
            /\ (lastOp.op = "hydratedOk" => page'.route = "/dashboard")]_vars
    /\ []((page.route = "/" /\ isLoading = FALSE) => ENABLED HomeEffect)

\* Home has sent a session whose stored token `me` accepted to the dashboard.
C23_Witness ==
    /\ lastOp.op = "homeReplace"
    /\ lastOp.prev = "hydratedOk"
    /\ lastOp.found \in Tokens
    /\ page.route = "/dashboard"

SubmitFailed == {"loginFail", "registerFail"}

\* C24: on the login and register pages a submit clears the error and sets
\* loading; when the awaited call fails the page shows its message, or
\* 'Login failed' / 'Registration failed' for an empty one, and stays where
\* it is; when it succeeds the page goes to '/dashboard' with no error; in
\* both cases loading is false afterwards.
C24_SubmitOutcome ==
    [][/\ lastOp'.op \in {"loginCall", "registerCall"} =>
            /\ page'.error = "" /\ page'.loading = TRUE
            /\ page'.route = page.route
       /\ (lastOp'.op \in SubmitFailed /\ lastOp'.req.id = page.req) =>
            /\ page'.error =
                 (IF lastOp'.msg /= "" THEN lastOp'.msg
                  ELSE IF lastOp'.op = "loginFail" THEN "Login failed"
                  ELSE "Registration failed")
            /\ page'.route = page.route
            /\ page'.loading = FALSE
       /\ (lastOp'.op \in AuthOk /\ lastOp'.req.id = page.req) =>
            /\ page'.route = "/dashboard"
            /\ page'.error = ""
            /\ page'.loading = FALSE]_vars

\* A second submit on the login page, after a failed one, has failed too.
C24_Witness ==
    /\ lastOp.op = "loginFail"
    /\ lastOp.req.id = 2
    /\ page.route = "/login"
    /\ page.error = "Invalid credentials"
    /\ page.loading = FALSE


\* ================================================================ candidates
\* per_page of every list request, and the page size of the pagination.
PerPage == 20

Searches == {"", "a"}
Totals == {0, 45}

\* Math.ceil(total / 20)
PageCount(total) == (total + PerPage - 1) \div PerPage

\* fetchCandidates(p, s): setLoading(true) and candidatesApi.list(...) with
\* its handlers attached.  The observer fields last and lastRes hold the
\* request issued most recently and what it was answered with.
FetchCandidates(c, p, s) ==
    LET r == [id |-> c.issued + 1, page |-> p, search |-> s]
    IN  [c EXCEPT !.loading = TRUE,
                  !.issued = c.issued + 1,
                  !.pending = c.pending \cup {r},
                  !.last = r,
                  !.lastRes = NoListResponse]

\* The page mounts and its mount effect calls fetchCandidates().
CandMount ==
    /\ cand = CandClosed
    /\ cand' = FetchCandidates([CandClosed EXCEPT !.open = TRUE],
                               CandClosed.page, CandClosed.search)
    /\ UNCHANGED <<user, token, isLoading, storage, hpc, inflight, sent,
                   lastOp, page>>

CandIdle == cand.open /\ cand.issued + Cardinality(cand.imports) < MaxListRequests

\* onChange of the search input: setSearch(e.target.value).
CandSetSearch(s) ==
    /\ cand.open
    /\ s /= cand.search
    /\ cand' = [cand EXCEPT !.search = s]
    /\ UNCHANGED <<user, token, isLoading, storage, hpc, inflight, sent,
                   lastOp, page>>

\* handleSearch: setPage(1); fetchCandidates(1, search).
CandSearch ==
    /\ CandIdle
    /\ cand' = FetchCandidates([cand EXCEPT !.page = 1], 1, cand.search)
    /\ UNCHANGED <<user, token, isLoading, storage, hpc, inflight, sent,
                   lastOp, page>>

\* Previous: setPage(page - 1); fetchCandidates(page - 1); shown when
\* total > 20 and disabled when page <= 1.
CandPrevious ==
    /\ CandIdle
    /\ cand.total > PerPage
    /\ cand.page > 1
    /\ cand' = FetchCandidates([cand EXCEPT !.page = cand.page - 1],
                               cand.page - 1, cand.search)
    /\ UNCHANGED <<user, token, isLoading, storage, hpc, inflight, sent,
                   lastOp, page>>

\* Next: setPage(page + 1); fetchCandidates(page + 1); shown when total > 20
\* and disabled when page >= Math.ceil(total / 20).
CandNextPage ==
    /\ CandIdle
    /\ cand.total > PerPage
    /\ cand.page < PageCount(cand.total)
    /\ cand' = FetchCandidates([cand EXCEPT !.page = cand.page + 1],
                               cand.page + 1, cand.search)
    /\ UNCHANGED <<user, token, isLoading, storage, hpc, inflight, sent,
                   lastOp, page>>

\* handleImport up to its await: setImporting(true) and the upload.  The
\* handler keeps the page and search of the render it was created in.
CandImportStart ==
    /\ CandIdle
    /\ cand' = [cand EXCEPT !.importing = TRUE,
                            !.imports = @ \cup {[at |-> cand.issued,
                                                 page |-> cand.page,
                                                 search |-> cand.search]}]
    /\ UNCHANGED <<user, token, isLoading, storage, hpc, inflight, sent,
                   lastOp, page>>

\* The import resolved: fetchCandidates() with the handler's page and
\* search, then setImporting(false).
CandImportFulfilled(i) ==
    /\ cand.open
    /\ i \in cand.imports
    /\ cand' = FetchCandidates([cand EXCEPT !.importing = FALSE,
                                            !.imports = @ \ {i}],
                               i.page, i.search)
    /\ UNCHANGED <<user, token, isLoading, storage, hpc, inflight, sent,
                   lastOp, page>>

\* The import rejected: alert(err.message), then setImporting(false).
CandImportRejected(i) ==
    /\ cand.open
    /\ i \in cand.imports
    /\ cand' = [cand EXCEPT !.importing = FALSE, !.imports = @ \ {i}]
    /\ UNCHANGED <<user, token, isLoading, storage, hpc, inflight, sent,
                   lastOp, page>>

\* .then((res) => { setCandidates(res.candidates || []);
\*                  setTotal(res.total || 0); })
\* .finally(() => setLoading(false))
CandListFulfilled(r, total) ==
    /\ cand.open
    /\ r \in cand.pending
    /\ cand' = [cand EXCEPT !.candidates = r.id,
                            !.total = total,
                            !.loading = FALSE,
                            !.pending = @ \ {r},
                            !.lastRes = IF r = cand.last
                                        THEN [ok |-> TRUE, total |-> total]
                                        ELSE @]
    /\ UNCHANGED <<user, token, isLoading, storage, hpc, inflight, sent,
                   lastOp, page>>

\* .catch(() => { }).finally(() => setLoading(false))
CandListRejected(r) ==
    /\ cand.open
    /\ r \in cand.pending
    /\ cand' = [cand EXCEPT !.loading = FALSE, !.pending = @ \ {r}]
    /\ UNCHANGED <<user, token, isLoading, storage, hpc, inflight, sent,
                   lastOp, page>>

CandNext ==
    \/ CandMount
    \/ \E s \in Searches : CandSetSearch(s)
    \/ CandSearch
    \/ CandPrevious
    \/ CandNextPage
    \/ CandImportStart
    \/ \E i \in cand.imports : CandImportFulfilled(i)
    \/ \E i \in cand.imports : CandImportRejected(i)
    \/ \E r \in cand.pending, total \in Totals : CandListFulfilled(r, total)
    \/ \E r \in cand.pending : CandListRejected(r)

\* The candidates list page on its own.
CandSpec == Init /\ [][CandNext]_vars

\* C30: once no list request is in flight, the candidates and total shown
\* are those returned for the request issued last, and the page indicator
\* shows that request's page.  Stated as the claim has it, for a last
\* request that was answered; the handlers apply every response in arrival
\* order, and an import re-fetches the page it started on.
C30_ShowsLatestRequest ==
    (cand.open /\ cand.pending = {} /\ cand.lastRes.ok) =>
        /\ cand.candidates = cand.last.id
        /\ cand.total = cand.lastRes.total
        /\ cand.page = cand.last.page

====
